---- MODULE Spec2Model ----
(***************************************************************************)
(* Model of bandwidth_allocation.py: the greedy and the dynamic-programming *)
(* allocators for the 0/1 bandwidth-allocation problem, the three literal   *)
(* adversarial instance generators and the small example of main.           *)
(*                                                                          *)
(* Python lists are 0-based; the sequences here are 1-based, so Python      *)
(* index i is position i + 1.  Utilities are floats in the source; the      *)
(* model draws them from small integers, for which float addition, float    *)
(* comparison and the comparison of two quotients utility / demand are      *)
(* exact, so an efficiency is kept as the pair <<utility, demand>> and two  *)
(* efficiencies are compared by cross-multiplication.                       *)
(***************************************************************************)
EXTENDS Integers, Sequences, FiniteSets, TLC

MaxN == 3
MaxDemand == 3
MaxUtility == 3
MaxCapacity == 4

VARIABLES demands, utilities, capacity, greedy_result, optimal_result

vars == <<demands, utilities, capacity, greedy_result, optimal_result>>

(***************************************************************************)
(* Outcome of one call: either the returned pair (allocations,             *)
(* total_utility) or the exception the interpreter raises.  The fields     *)
(* allocations and total_utility carry no meaning unless status is         *)
(* "returned".                                                              *)
(***************************************************************************)
NotCalled == [status |-> "not_called", allocations |-> <<>>, total_utility |-> 0]

Returned(allocations, total_utility) ==
    [status |-> "returned", allocations |-> allocations, total_utility |-> total_utility]

Raised(exception) == [status |-> exception, allocations |-> <<>>, total_utility |-> 0]

Max2_first(a, b) == a

\* max(a, b)
Max2(a, b) == IF a >= b THEN a ELSE b

Zeros(n) == [i \in 1..n |-> 0]

(***************************************************************************)
(* Greedy allocator                                                        *)
(***************************************************************************)

\* utilities[i] / demands[i], kept as an exact quotient
efficiency(d, u, i) == <<u[i], d[i]>>

\* a comparison of the utilities alone
utility_gt(a, b) == a[1] > b[1]

\* a > b for two quotients with non-zero denominators
eff_gt(a, b) ==
    IF a[2] * b[2] > 0 THEN a[1] * b[2] > b[1] * a[2]
                       ELSE a[1] * b[2] < b[1] * a[2]

\* a descending sort that puts equal efficiencies in descending index order
RECURSIVE sort_users_unstable(_, _, _)
sort_users_unstable(d, u, k) ==
    IF k = 0 THEN <<>>
    ELSE LET rest == sort_users_unstable(d, u, k - 1)
             before == SelectSeq(rest, LAMBDA e : eff_gt(efficiency(d, u, e), efficiency(d, u, k)))
             after == SelectSeq(rest, LAMBDA e : ~eff_gt(efficiency(d, u, e), efficiency(d, u, k)))
         IN  before \o <<k>> \o after

\* users.sort(key=efficiency, reverse=True) run on the indices 1..k: a stable
\* descending sort, built by inserting index k behind every index whose
\* efficiency is at least as large.
RECURSIVE sort_users(_, _, _)
sort_users(d, u, k) ==
    IF k = 0 THEN <<>>
    ELSE LET rest == sort_users(d, u, k - 1)
             before == SelectSeq(rest, LAMBDA e : ~eff_gt(efficiency(d, u, k), efficiency(d, u, e)))
             after == SelectSeq(rest, LAMBDA e : eff_gt(efficiency(d, u, k), efficiency(d, u, e)))
         IN  before \o <<k>> \o after

fits_always(used_capacity, demand, cap) == used_capacity <= cap

fits_ignoring_used(used_capacity, demand, cap) == demand <= cap

\* the test of the greedy loop
fits(used_capacity, demand, cap) == used_capacity + demand <= cap

\* a selection loop that stops at the first candidate that does not fit
RECURSIVE greedy_select_break(_, _, _, _, _, _, _, _)
greedy_select_break(d, u, cap, users, k, allocations, used_capacity, total_utility) ==
    IF k > Len(users) THEN Returned(allocations, total_utility)
    ELSE LET idx == users[k] IN
         IF fits(used_capacity, d[idx], cap)
         THEN greedy_select_break(d, u, cap, users, k + 1,
                                  [allocations EXCEPT ![idx] = 1],
                                  used_capacity + d[idx],
                                  total_utility + u[idx])
         ELSE Returned(allocations, total_utility)

\* the greedy selection loop over users[k..]
RECURSIVE greedy_select(_, _, _, _, _, _, _, _)
greedy_select(d, u, cap, users, k, allocations, used_capacity, total_utility) ==
    IF k > Len(users) THEN Returned(allocations, total_utility)
    ELSE LET idx == users[k] IN
         IF fits(used_capacity, d[idx], cap)
         THEN greedy_select(d, u, cap, users, k + 1,
                            [allocations EXCEPT ![idx] = 1],
                            used_capacity + d[idx],
                            total_utility + u[idx])
         ELSE greedy_select(d, u, cap, users, k + 1,
                            allocations, used_capacity, total_utility)

\* the exception raised while the list of efficiencies is built: index i is
\* evaluated in order, utilities[i] before the division by demands[i]
greedy_exception(d, u) ==
    LET bad == {i \in 1..Len(d) : i > Len(u) \/ d[i] = 0}
    IN  IF bad = {} THEN "none"
        ELSE LET first == CHOOSE i \in bad : \A j \in bad : i <= j
             IN  IF first > Len(u) THEN "IndexError" ELSE "ZeroDivisionError"

greedy_bandwidth_allocation(d, u, cap) ==
    LET n == Len(d) IN
    IF greedy_exception(d, u) # "none" THEN Raised(greedy_exception(d, u))
    ELSE greedy_select(d, u, cap, sort_users(d, u, n), 1, Zeros(n), 0, 0)

(***************************************************************************)
(* Exact allocator (dynamic programming)                                   *)
(***************************************************************************)

dp_cell_strict(prev, demand, utility, c) ==
    IF demand < c THEN Max2(prev[c], prev[c - demand] + utility) ELSE prev[c]

\* one cell of the table: dp[i][c] from row i - 1
dp_cell(prev, demand, utility, c) ==
    IF demand <= c THEN Max2(prev[c], prev[c - demand] + utility) ELSE prev[c]

\* rows i..n of the table appended to rows 0..i-1
RECURSIVE fill_dp(_, _, _, _, _)
fill_dp(dp, d, u, cap, i) ==
    IF i > Len(d) THEN dp
    ELSE LET row == [c \in 0..cap |-> dp_cell(dp[i - 1], d[i], u[i], c)]
         IN  fill_dp([k \in 0..i |-> IF k = i THEN row ELSE dp[k]], d, u, cap, i + 1)

\* the table: row 0 is all 0.0
dp_table(d, u, cap) == fill_dp([k \in {0} |-> [c \in 0..cap |-> 0]], d, u, cap, 1)

\* a backtracking that never decrements c
RECURSIVE backtrack_keep_c(_, _, _, _, _)
backtrack_keep_c(dp, d, i, c, allocations) ==
    IF i = 0 THEN allocations
    ELSE IF dp[i][c] # dp[i - 1][c]
         THEN backtrack_keep_c(dp, d, i - 1, c, [allocations EXCEPT ![i] = 1])
         ELSE backtrack_keep_c(dp, d, i - 1, c, allocations)

\* the backtracking loop, for i down to 1
RECURSIVE backtrack(_, _, _, _, _)
backtrack(dp, d, i, c, allocations) ==
    IF i = 0 THEN allocations
    ELSE IF dp[i][c] # dp[i - 1][c]
         THEN backtrack(dp, d, i - 1, c - d[i], [allocations EXCEPT ![i] = 1])
         ELSE backtrack(dp, d, i - 1, c, allocations)

\* the exception raised by an index out of range: with a negative capacity
\* every row is empty and dp[n][capacity] does not exist; while the table is
\* filled, dp[i-1][c - demands[i-1]] lies beyond the row when the demand is
\* negative, and utilities[i-1] is read only when demands[i-1] <= c
optimal_exception(d, u, cap) ==
    IF cap < 0 THEN "IndexError"
    ELSE IF \E i \in 1..Len(d), c \in 0..cap :
              d[i] <= c /\ (c - d[i] > cap \/ i > Len(u))
         THEN "IndexError"
         ELSE "none"

optimal_bandwidth_allocation(d, u, cap) ==
    LET n == Len(d) IN
    IF optimal_exception(d, u, cap) # "none" THEN Raised(optimal_exception(d, u, cap))
    ELSE LET dp == dp_table(d, u, cap)
         IN  Returned(backtrack(dp, d, n, cap, Zeros(n)), dp[n][cap])

(***************************************************************************)
(* Instances                                                               *)
(***************************************************************************)

SeqsUpTo(S, n) == UNION {[1..k -> S] : k \in 0..n}

\* the instances of the data contract: equal lengths, demands >= 1,
\* utilities > 0, capacity >= 0
ValidInstance(d, u, cap) ==
    /\ Len(d) = Len(u)
    /\ \A i \in 1..Len(d) : d[i] >= 1
    /\ \A i \in 1..Len(u) : u[i] > 0
    /\ cap >= 0

\* what a caller may pass, the contract notwithstanding
AnyDemand == {-1, 0} \cup (1..MaxDemand)

AnyCapacity == {-1} \cup (0..MaxCapacity)

generate_worst_case_for_greedy == [demands |-> <<6, 5, 5>>, utilities |-> <<60, 45, 45>>, capacity |-> 10]

generate_pathological_case == [demands |-> <<1, 2>>, utilities |-> <<1, 2>>, capacity |-> 2]

generate_another_bad_case == [demands |-> <<7, 6, 6>>, utilities |-> <<35, 24, 24>>, capacity |-> 12]

main_example == [demands |-> <<5, 3, 4, 6, 2>>, utilities |-> <<10, 6, 8, 15, 5>>, capacity |-> 10]

(***************************************************************************)
(* State machine: a caller holds an instance and calls each allocator on   *)
(* it; the generators and main replace the instance by a literal one.      *)
(***************************************************************************)

Init ==
    /\ \E n \in 0..MaxN :
          /\ demands \in [1..n -> 1..MaxDemand]
          /\ utilities \in [1..n -> 1..MaxUtility]
    /\ capacity \in 0..MaxCapacity
    /\ greedy_result = NotCalled
    /\ optimal_result = NotCalled

InitAny ==
    /\ demands \in SeqsUpTo(AnyDemand, MaxN)
    /\ utilities \in SeqsUpTo(1..MaxUtility, MaxN)
    /\ capacity \in AnyCapacity
    /\ greedy_result = NotCalled
    /\ optimal_result = NotCalled

CallGreedy ==
    /\ greedy_result.status = "not_called"
    /\ greedy_result' = greedy_bandwidth_allocation(demands, utilities, capacity)
    /\ UNCHANGED <<demands, utilities, capacity, optimal_result>>

CallOptimal ==
    /\ optimal_result.status = "not_called"
    /\ optimal_result' = optimal_bandwidth_allocation(demands, utilities, capacity)
    /\ UNCHANGED <<demands, utilities, capacity, greedy_result>>

Load(instance) ==
    /\ <<demands, utilities, capacity>> #
          <<instance.demands, instance.utilities, instance.capacity>>
    /\ demands' = instance.demands
    /\ utilities' = instance.utilities
    /\ capacity' = instance.capacity
    /\ greedy_result' = NotCalled
    /\ optimal_result' = NotCalled

WorstCaseForGreedy == Load(generate_worst_case_for_greedy)

PathologicalCase == Load(generate_pathological_case)

AnotherBadCase == Load(generate_another_bad_case)

MainExample == Load(main_example)

Next ==
    \/ CallGreedy
    \/ CallOptimal
    \/ WorstCaseForGreedy
    \/ PathologicalCase
    \/ AnotherBadCase
    \/ MainExample

Spec == Init /\ [][Next]_vars

SpecAny == InitAny /\ [][Next]_vars

(***************************************************************************)
(* Definitions used to state the properties                                *)
(***************************************************************************)

\* sum of values[i] over the positions i of S
RECURSIVE SumOver(_, _)
SumOver(values, S) ==
    IF S = {} THEN 0
    ELSE LET i == CHOOSE x \in S : TRUE IN values[i] + SumOver(values, S \ {i})

Accepted(allocations) == {i \in 1..Len(allocations) : allocations[i] = 1}

Rejected(allocations) == {i \in 1..Len(allocations) : allocations[i] = 0}

IsAllocation(allocations) ==
    /\ Len(allocations) = Len(demands)
    /\ \A i \in 1..Len(allocations) : allocations[i] \in {0, 1}

UsedDemand(result) == SumOver(demands, Accepted(result.allocations))

FeasibleSubsets == {S \in SUBSET (1..Len(demands)) : SumOver(demands, S) <= capacity}

\* maximum total utility over every feasible subset, by enumeration
BruteForceMax ==
    LET totals == {SumOver(utilities, S) : S \in FeasibleSubsets}
    IN  CHOOSE m \in totals : \A t \in totals : m >= t

Current(instance) ==
    /\ demands = instance.demands
    /\ utilities = instance.utilities
    /\ capacity = instance.capacity

BothReturned == greedy_result.status = "returned" /\ optimal_result.status = "returned"

\* C1: on a valid instance a call of either allocator returns, and the demands
\* of the accepted indices of the returned allocation sum to at most capacity.
Feasibility ==
    ValidInstance(demands, utilities, capacity) =>
        /\ greedy_result.status \in {"not_called", "returned"}
        /\ optimal_result.status \in {"not_called", "returned"}
        /\ greedy_result.status = "returned" => UsedDemand(greedy_result) <= capacity
        /\ optimal_result.status = "returned" => UsedDemand(optimal_result) <= capacity

\* both allocators have returned, each fills the capacity exactly and each
\* rejects some candidate
FeasibilityWitness ==
    /\ BothReturned
    /\ capacity > 0
    /\ UsedDemand(greedy_result) = capacity
    /\ UsedDemand(optimal_result) = capacity
    /\ Rejected(greedy_result.allocations) # {}
    /\ Rejected(optimal_result.allocations) # {}

\* C2: the utility returned by the exact allocator is the maximum total
\* utility over all feasible subsets of candidates.
OptimalityOfExact ==
    optimal_result.status = "returned" => optimal_result.total_utility = BruteForceMax

\* the exact allocator returned a maximum that needs every unit of capacity
\* and is reached by accepting some candidates and rejecting others
OptimalityWitness ==
    /\ optimal_result.status = "returned"
    /\ Cardinality(Accepted(optimal_result.allocations)) >= 2
    /\ Rejected(optimal_result.allocations) # {}
    /\ UsedDemand(optimal_result) = capacity
    /\ optimal_result.total_utility = BruteForceMax

\* C3: the greedy utility is at least half of the optimal utility.
GreedyHalfBound ==
    BothReturned => 2 * greedy_result.total_utility >= optimal_result.total_utility

\* C4: the greedy utility never exceeds the utility of the exact allocator.
GreedyAtMostOptimal ==
    BothReturned => greedy_result.total_utility <= optimal_result.total_utility

\* both returned and the greedy utility is strictly below the optimal one
GreedyAtMostOptimalWitness ==
    /\ BothReturned
    /\ greedy_result.total_utility > 0
    /\ greedy_result.total_utility < optimal_result.total_utility

\* the instances C5 calls invalid
InvalidInstance ==
    \/ Len(demands) # Len(utilities)
    \/ \E i \in 1..Len(demands) : demands[i] <= 0
    \/ capacity < 0

\* C5: on an instance with mismatched lengths, a demand <= 0 or a negative
\* capacity, a call of either allocator fails with InvalidInstance and
\* returns no result.
InvalidRejected ==
    InvalidInstance =>
        /\ greedy_result.status \in {"not_called", "InvalidInstance"}
        /\ optimal_result.status \in {"not_called", "InvalidInstance"}

\* C6 as stated: on the small example of main both allocations are feasible
\* and the optimal utility is the brute-force maximum, 24.
Scenario4Stated ==
    (Current(main_example) /\ BothReturned) =>
        /\ UsedDemand(greedy_result) <= capacity
        /\ UsedDemand(optimal_result) <= capacity
        /\ optimal_result.total_utility = BruteForceMax
        /\ optimal_result.total_utility = 24

\* C6 amended: on the small example of main both allocations are feasible
\* and the optimal utility is the brute-force maximum, which is 23.
Scenario4 ==
    (Current(main_example) /\ BothReturned) =>
        /\ UsedDemand(greedy_result) <= capacity
        /\ UsedDemand(optimal_result) <= capacity
        /\ optimal_result.total_utility = BruteForceMax
        /\ optimal_result.total_utility = 23

\* both allocators have returned on the small example of main
Scenario4Witness == Current(main_example) /\ BothReturned

\* C7: on each literal adversarial instance the greedy allocator accepts
\* exactly the first candidate and the exact allocator accepts exactly the
\* others, with the utilities 1 and 2, 60 and 90, 35 and 48.
AdversarialInstances ==
    /\ (Current(generate_pathological_case) /\ greedy_result.status = "returned")
          => greedy_result = Returned(<<1, 0>>, 1)
    /\ (Current(generate_pathological_case) /\ optimal_result.status = "returned")
          => optimal_result = Returned(<<0, 1>>, 2)
    /\ (Current(generate_worst_case_for_greedy) /\ greedy_result.status = "returned")
          => greedy_result = Returned(<<1, 0, 0>>, 60)
    /\ (Current(generate_worst_case_for_greedy) /\ optimal_result.status = "returned")
          => optimal_result = Returned(<<0, 1, 1>>, 90)
    /\ (Current(generate_another_bad_case) /\ greedy_result.status = "returned")
          => greedy_result = Returned(<<1, 0, 0>>, 35)
    /\ (Current(generate_another_bad_case) /\ optimal_result.status = "returned")
          => optimal_result = Returned(<<0, 1, 1>>, 48)

\* both allocators have returned on the pathological instance, where the two
\* candidates tie in efficiency
AdversarialWitness == Current(generate_pathological_case) /\ BothReturned

\* a returned allocation and its utility agree
Consistent(result) ==
    result.status = "returned" =>
        /\ IsAllocation(result.allocations)
        /\ result.total_utility = SumOver(utilities, Accepted(result.allocations))

\* C8: each returned allocation has one entry in {0,1} per candidate and the
\* returned utility is the sum of the utilities of its accepted indices.
SolutionConsistency == Consistent(greedy_result) /\ Consistent(optimal_result)

\* the backtracking accepted two candidates or more and skipped one, and the
\* greedy allocation differs from it
ConsistencyWitness ==
    /\ BothReturned
    /\ Cardinality(Accepted(optimal_result.allocations)) >= 2
    /\ Rejected(optimal_result.allocations) # {}
    /\ greedy_result.allocations # optimal_result.allocations

\* C9: with capacity 0 and every demand >= 1 both allocators return the
\* all-zero allocation of length n and utility 0.
ZeroCapacity ==
    (capacity = 0 /\ \A i \in 1..Len(demands) : demands[i] >= 1) =>
        /\ greedy_result.status # "not_called"
              => greedy_result = Returned(Zeros(Len(demands)), 0)
        /\ optimal_result.status # "not_called"
              => optimal_result = Returned(Zeros(Len(demands)), 0)

\* both allocators were called with capacity 0 on a non-empty instance
ZeroCapacityWitness ==
    /\ capacity = 0
    /\ Len(demands) >= 2
    /\ greedy_result.status # "not_called"
    /\ optimal_result.status # "not_called"

\* The reference procedure of C10: candidates are taken one at a time, each
\* time the one of largest efficiency and, among equals, of smallest index;
\* a candidate is accepted iff its demand fits in what remains.
RefFirst(i, j) ==
    \/ utilities[i] * demands[j] > utilities[j] * demands[i]
    \/ utilities[i] * demands[j] = utilities[j] * demands[i] /\ i < j

RECURSIVE RefGreedy(_, _, _, _)
RefGreedy(remaining, allocations, left, total) ==
    IF remaining = {} THEN Returned(allocations, total)
    ELSE LET i == CHOOSE x \in remaining : \A y \in remaining \ {x} : RefFirst(x, y)
         IN  IF demands[i] <= left
             THEN RefGreedy(remaining \ {i}, [allocations EXCEPT ![i] = 1],
                            left - demands[i], total + utilities[i])
             ELSE RefGreedy(remaining \ {i}, allocations, left, total)

\* C10: the greedy allocator returns what the reference procedure returns.
GreedyOrder ==
    greedy_result.status = "returned" =>
        greedy_result = RefGreedy(1..Len(demands), Zeros(Len(demands)), capacity, 0)

\* two candidates tie in efficiency, the one of smaller index was accepted
\* and the other, which alone would have fitted, was rejected
GreedyOrderWitness ==
    /\ greedy_result.status = "returned"
    /\ \E i, j \in 1..Len(demands) :
          /\ i < j
          /\ utilities[i] * demands[j] = utilities[j] * demands[i]
          /\ demands[j] <= capacity
          /\ greedy_result.allocations[i] = 1
          /\ greedy_result.allocations[j] = 0

\* C11: in the allocation the greedy allocator returns on a valid instance no
\* rejected candidate could still be added: the accepted demands plus the
\* demand of any rejected index exceed capacity.
GreedyMaximality ==
    (ValidInstance(demands, utilities, capacity) /\ greedy_result.status = "returned") =>
        \A i \in Rejected(greedy_result.allocations) :
            UsedDemand(greedy_result) + demands[i] > capacity

\* the greedy allocator rejected a candidate and then accepted one of
\* strictly smaller efficiency: it kept scanning past the first misfit
GreedyMaximalityWitness ==
    /\ greedy_result.status = "returned"
    /\ \E i \in Rejected(greedy_result.allocations) :
          \E j \in Accepted(greedy_result.allocations) :
              utilities[i] * demands[j] > utilities[j] * demands[i]

====
